---- MODULE Spec2Model ----
(***************************************************************************)
(* Model of tools/email-handler/src/main.py: the GitHub "Run failed"       *)
(* notification handler.  Texts are sequences of one-character strings so  *)
(* that the regular expression of parse_github_email is matched character  *)
(* by character.                                                           *)
(***************************************************************************)
EXTENDS Integers, Sequences, FiniteSets, TLC

VARIABLES
    mail,        \* the mailbox: message id -> sender, Subject header, snippet
    labels,      \* the mailbox: message id -> label set
    dry_run,     \* args.dry_run of the current invocation
    pc,          \* position of the invocation
    messages,    \* results.get('messages', []), as a sequence of ids
    idx,         \* position of the for loop in messages
    msg,         \* the message fetched by messages().get()
    issue_data,  \* result of parse_github_email
    gh,          \* what subprocess.run did in the last check_workflow_status
    is_fixed,    \* result of check_workflow_status
    calls,       \* external calls issued by the current invocation, in order
    handled      \* id -> the mutation that last succeeded on it in a finished dispatch

vars == <<mail, labels, dry_run, pc, messages, idx, msg, issue_data, gh, is_fixed,
          calls, handled>>

----------------------------------------------------------------------------
(* Bounds *)

NumMsgs == 2

MsgIds == 1..NumMsgs

----------------------------------------------------------------------------
(* Texts *)

None == [t |-> "None"]

Letters == {"a", "b", "c", "d", "e", "f", "i", "l", "m", "n", "o", "r", "s", "t",
            "u", "x", "B", "C", "I", "Q", "A", "R", "S", "T", "3"}

\* \w of the re module on str, over the characters the model uses
IsWord(c) == c \in Letters \cup {"_"}

\* the character class [\w-]
IsRepoChar(c) == IsWord(c) \/ c = "-"

\* the regex atom "." : any character but a newline
IsDot(c) == c # "\n"

Sub(s, i, j) == SubSeq(s, i, j)

StartsAt(s, i, lit) ==
    /\ i >= 1
    /\ i + Len(lit) - 1 <= Len(s)
    /\ \A k \in 1..Len(lit) : s[i + k - 1] = lit[k]

Contains(s, lit) == \E i \in 1..(Len(s) + 1) : StartsAt(s, i, lit)

\* first position >= i holding a character outside [\w-], or Len(s)+1
RunEnd(s, i) ==
    LET stops == {j \in i..Len(s) : ~IsRepoChar(s[j])}
    IN  IF stops = {} THEN Len(s) + 1
        ELSE CHOOSE j \in stops : \A k \in stops : j <= k

Min(S) == CHOOSE x \in S : \A y \in S : x <= y

\* "] Run failed: " of the pattern
PhraseLit == <<"]", " ", "R", "u", "n", " ", "f", "a", "i", "l", "e", "d", ":", " ">>

\* " -", the tail of the pattern
TermLit == <<" ", "-">>

----------------------------------------------------------------------------
(* parse_github_email *)

NoMatch == [t |-> "NoMatch"]

Max(S) == CHOOSE x \in S : \A y \in S : x >= y

\* MatchAt with a greedy (.+) in place of the lazy (.+?)
MatchAtGreedy(s, i) ==
    LET j == RunEnd(s, i + 1)
        k == RunEnd(s, j + 1)
        w == k + Len(PhraseLit)
        ends == {e \in (w + 1)..Len(s) :
                    /\ StartsAt(s, e, TermLit)
                    /\ \A q \in w..(e - 1) : IsDot(s[q])}
    IN  IF /\ i <= Len(s)
           /\ s[i] = "["
           /\ j > i + 1
           /\ j <= Len(s)
           /\ s[j] = "/"
           /\ k > j + 1
           /\ StartsAt(s, k, PhraseLit)
           /\ ends # {}
        THEN [t |-> "Match", group1 |-> Sub(s, i + 1, k - 1),
              group2 |-> Sub(s, w, Max(ends) - 1)]
        ELSE NoMatch

\* the pattern \[([\w-]+/[\w-]+)\] Run failed: (.+?) - anchored at position i.
\* Neither [\w-]+ can give characters back ("/" and "]" are outside the class),
\* and the lazy (.+?) stops at the first " -" it can reach without a newline.
MatchAt(s, i) ==
    LET j == RunEnd(s, i + 1)
        k == RunEnd(s, j + 1)
        w == k + Len(PhraseLit)
        ends == {e \in (w + 1)..Len(s) :
                    /\ StartsAt(s, e, TermLit)
                    /\ \A q \in w..(e - 1) : IsDot(s[q])}
    IN  IF /\ i <= Len(s)
           /\ s[i] = "["
           /\ j > i + 1
           /\ j <= Len(s)
           /\ s[j] = "/"
           /\ k > j + 1
           /\ StartsAt(s, k, PhraseLit)
           /\ ends # {}
        THEN [t |-> "Match", group1 |-> Sub(s, i + 1, k - 1),
              group2 |-> Sub(s, w, Min(ends) - 1)]
        ELSE NoMatch

\* re.search: the match at the leftmost position that has one
ReSearch(s) ==
    LET starts == {i \in 1..Len(s) : MatchAt(s, i) # NoMatch}
    IN  IF starts = {} THEN NoMatch ELSE MatchAt(s, Min(starts))

parse_github_email(snippet, body) ==
    LET match == ReSearch(snippet)
    IN  IF match # NoMatch
        THEN [t |-> "dict", type |-> "github_action_failure", repo |-> match.group1,
              workflow |-> match.group2, snippet |-> snippet]
        ELSE None

----------------------------------------------------------------------------
(* The mailbox *)

Labels == {"UNREAD", "INBOX", "STARRED"}

GitHubSender == "notifications@github.com"

\* "Run failed", the phrase of the list query
QueryPhrase == <<"R", "u", "n", " ", "f", "a", "i", "l", "e", "d">>

\* 'Sin Asunto', the default of the Subject lookup
SinAsunto == <<"S", "i", "n", " ", "A", "s", "u", "n", "t", "o">>

\* "[a/b] Run failed: CI - m"
SubjectFailed == <<"[", "a", "/", "b", "]", " ", "R", "u", "n", " ", "f", "a", "i", "l", "e", "d", ":", " ", "C", "I", " ", "-", " ", "m">>

\* "Random"
SubjectRandom == <<"R", "a", "n", "d", "o", "m">>

Message(from, has_subject, subject, snippet) ==
    [from |-> from, has_subject |-> has_subject, subject |-> subject, snippet |-> snippet]

\* the messages a mailbox is filled with, each with the labels it starts with
Templates ==
    { [m |-> Message(GitHubSender, TRUE, SubjectFailed, <<>>),
       l |-> {"UNREAD", "INBOX", "STARRED"}],
      [m |-> Message(GitHubSender, TRUE, SubjectRandom, QueryPhrase),
       l |-> {"UNREAD", "INBOX"}],
      [m |-> Message("someone@example.org", TRUE, SubjectFailed, <<>>),
       l |-> {"UNREAD", "INBOX"}],
      [m |-> Message(GitHubSender, TRUE, SubjectFailed, <<>>),
       l |-> {"INBOX"}],
      [m |-> Message(GitHubSender, TRUE, SubjectFailed, <<>>),
       l |-> {"UNREAD"}],
      [m |-> Message(GitHubSender, FALSE, <<>>, SubjectFailed),
       l |-> {"UNREAD", "INBOX"}] }

\* q = 'from:notifications@github.com is:unread "Run failed"'
QueryMatches(m, ls) ==
    /\ m.from = GitHubSender
    /\ "UNREAD" \in ls
    /\ \/ m.has_subject /\ Contains(m.subject, QueryPhrase)
       \/ Contains(m.snippet, QueryPhrase)

QueryResult == {id \in MsgIds : QueryMatches(mail[id], labels[id])}

RECURSIVE Ascending(_)
Ascending(S) ==
    IF S = {} THEN <<>> ELSE <<Min(S)>> \o Ascending(S \ {Min(S)})

Reverse(q) == [k \in 1..Len(q) |-> q[Len(q) + 1 - k]]

\* the orders in which messages().list() hands out the matching ids
ListOrders(S) == {Ascending(S), Reverse(Ascending(S))}

\* how a call of the mail API ends: normally, with an HttpError, or with an
\* exception that is no HttpError (a transport error below the API client)
Outcomes == {"ok", "HttpError", "OtherError"}

\* messages().modify(body={'removeLabelIds': [...]}) on a label set
ApplyModify(ls, body) == ls \ body.removeLabelIds

\* mark_as_read taking a second label off
MarkReadBodyAndStar == [removeLabelIds |-> {"UNREAD", "STARRED"}]

\* mark_as_read taking the label of archive_message off
MarkReadBodyInbox == [removeLabelIds |-> {"INBOX"}]

\* body of the modify call in mark_as_read
MarkReadBody == [removeLabelIds |-> {"UNREAD"}]

\* body of the modify call in archive_message
ArchiveBody == [removeLabelIds |-> {"INBOX"}]

\* one entry of calls: the operation, the message id (0 for the list query), the
\* labels a modify call asks to remove, how the call ended, and the labels the
\* message carried when a modify call was issued
Call(op, id, remove, res, had) ==
    [op |-> op, id |-> id, remove |-> remove, res |-> res, had |-> had]

----------------------------------------------------------------------------
(* check_workflow_status *)

Str(x) == [t |-> "str", s |-> x]

List(items) == [t |-> "list", items |-> items]

\* a JSON object that holds at most the key "conclusion"
Dict(has, conclusion) == [t |-> "dict", has |-> has, conclusion |-> conclusion]

PyInt(n) == [t |-> "int", n |-> n]

Run(c) == Dict(TRUE, Str(c))

\* the outputs of gh the model draws from, and what json.loads makes of each
StdoutTexts ==
    { "[]", "[{\"conclusion\":\"success\"}]", "[{\"conclusion\":\"failure\"}]",
      "[{\"conclusion\":\"Success\"}]", "[{\"conclusion\":\"\"}]",
      "[{\"conclusion\":null}]", "[{}]",
      "[{\"conclusion\":\"failure\"},{\"conclusion\":\"success\"}]",
      "[{\"conclusion\":\"success\"},{\"conclusion\":\"failure\"}]",
      "{\"conclusion\":\"success\"}", "{}", "[\"success\"]", "\"success\"", "null",
      "1", "", "no runs found" }

JsonLoads(text) ==
    CASE text = "[]" -> List(<<>>)
      [] text = "[{\"conclusion\":\"success\"}]" -> List(<<Run("success")>>)
      [] text = "[{\"conclusion\":\"failure\"}]" -> List(<<Run("failure")>>)
      [] text = "[{\"conclusion\":\"Success\"}]" -> List(<<Run("Success")>>)
      [] text = "[{\"conclusion\":\"\"}]" -> List(<<Run("")>>)
      [] text = "[{\"conclusion\":null}]" -> List(<<Dict(TRUE, None)>>)
      [] text = "[{}]" -> List(<<Dict(FALSE, None)>>)
      [] text = "[{\"conclusion\":\"failure\"},{\"conclusion\":\"success\"}]"
            -> List(<<Run("failure"), Run("success")>>)
      [] text = "[{\"conclusion\":\"success\"},{\"conclusion\":\"failure\"}]"
            -> List(<<Run("success"), Run("failure")>>)
      [] text = "{\"conclusion\":\"success\"}" -> Run("success")
      [] text = "{}" -> Dict(FALSE, None)
      [] text = "[\"success\"]" -> List(<<Str("success")>>)
      [] text = "\"success\"" -> Str("success")
      [] text = "null" -> None
      [] text = "1" -> PyInt(1)
      [] OTHER -> [t |-> "JSONDecodeError"]

\* what subprocess.run did: it could not start gh, or gh ended with a return code
GhOutcomes ==
    {[spawned |-> FALSE, returncode |-> 0, stdout |-> ""]}
    \cup [spawned : {TRUE}, returncode : {0}, stdout : StdoutTexts]
    \cup [spawned : {TRUE}, returncode : {1},
          stdout : {"", "[{\"conclusion\":\"success\"}]"}]

Return(v) == [k |-> "return", v |-> v]

Raise(exc) == [k |-> "raise", exc |-> exc]

\* bool(v)
Truthy(v) ==
    CASE v.t = "list" -> v.items # <<>>
      [] v.t = "dict" -> v.has
      [] v.t = "str" -> v.s # ""
      [] v.t = "int" -> v.n # 0
      [] OTHER -> FALSE

\* runs[0].get('conclusion') == 'success', for a truthy runs with a len()
FirstConclusionIsSuccess(runs) ==
    CASE runs.t = "dict" -> Raise("KeyError")
      [] runs.t = "str" -> Raise("AttributeError")
      [] runs.t = "list" ->
            LET first == runs.items[1]
            IN  IF first.t = "dict"
                THEN Return(first.has /\ first.conclusion = Str("success"))
                ELSE Raise("AttributeError")

\* CheckTry without the test of the return code
CheckTryAnyReturnCode(out) ==
    IF ~out.spawned THEN Raise("FileNotFoundError")
    ELSE LET runs == JsonLoads(out.stdout)
         IN  IF runs.t = "JSONDecodeError" THEN Raise("JSONDecodeError")
             ELSE IF ~Truthy(runs) THEN Return(FALSE)
             ELSE IF runs.t = "int" THEN Raise("TypeError")
             ELSE FirstConclusionIsSuccess(runs)

\* the try block of check_workflow_status
CheckTry(out) ==
    IF ~out.spawned THEN Raise("FileNotFoundError")
    ELSE IF out.returncode = 0
    THEN LET runs == JsonLoads(out.stdout)
         IN  IF runs.t = "JSONDecodeError" THEN Raise("JSONDecodeError")
             ELSE IF ~Truthy(runs) THEN Return(FALSE)
             ELSE IF runs.t = "int" THEN Raise("TypeError")
             ELSE FirstConclusionIsSuccess(runs)
    ELSE Return(FALSE)

\* the classes that "except Exception" catches
CaughtByExceptException ==
    {"FileNotFoundError", "JSONDecodeError", "KeyError", "AttributeError", "TypeError"}

\* the except clause of check_workflow_status
CheckExcept(r) ==
    IF r.k = "raise" /\ r.exc \in CaughtByExceptException THEN Return(FALSE) ELSE r

check_workflow_status(out) == CheckExcept(CheckTry(out))

\* how a call of check_workflow_status ended, as calls records it
Outcome(r) == IF r.k = "raise" THEN "raised" ELSE IF r.v THEN "True" ELSE "False"

----------------------------------------------------------------------------
(* The invocation: __main__ and process_messages *)

Terminal == {"idle", "exit", "done", "raised"}

Init ==
    /\ \E f \in [MsgIds -> Templates] :
          /\ mail = [id \in MsgIds |-> f[id].m]
          /\ labels = [id \in MsgIds |-> f[id].l]
    /\ dry_run = FALSE
    /\ pc = "idle"
    /\ messages = <<>>
    /\ idx = 0
    /\ msg = None
    /\ issue_data = None
    /\ gh = None
    /\ is_fixed = None
    /\ calls = <<>>
    /\ handled = [id \in MsgIds |-> "none"]

\* __main__: parse the arguments, get the service, call process_messages if there is one
Main ==
    /\ pc \in Terminal
    /\ \E dry \in BOOLEAN, service \in {"service", "None"} :
          /\ dry_run' = dry
          /\ pc' = IF service = "None" THEN "exit" ELSE "list"
    /\ messages' = <<>>
    /\ idx' = 0
    /\ msg' = None
    /\ issue_data' = None
    /\ gh' = None
    /\ is_fixed' = None
    /\ calls' = <<>>
    /\ UNCHANGED <<mail, labels, handled>>

\* AfterError without the except clause of process_messages
AfterErrorUncaught(res) == "raised"

\* where a call of the mail API inside the try of process_messages leaves the run
\* when it does not end normally: "except HttpError" logs and returns, any other
\* exception leaves process_messages
AfterError(res) == IF res = "HttpError" THEN "done" ELSE "raised"

\* messages().list(userId='me', q=query).execute() and the empty-result return
ListMessages ==
    /\ pc = "list"
    /\ \E res \in Outcomes :
          /\ calls' = Append(calls, Call("list", 0, {}, res, {}))
          /\ IF res = "ok"
             THEN \E order \in ListOrders(QueryResult) :
                     /\ messages' = order
                     /\ idx' = IF order = <<>> THEN 0 ELSE 1
                     /\ pc' = IF order = <<>> THEN "done" ELSE "fetch"
             ELSE /\ pc' = AfterError(res)
                  /\ UNCHANGED <<messages, idx>>
    /\ UNCHANGED <<mail, labels, dry_run, msg, issue_data, gh, is_fixed, handled>>

\* messages().get(userId='me', id=message['id']).execute()
GetMessage ==
    /\ pc = "fetch"
    /\ \E res \in Outcomes :
          /\ calls' = Append(calls, Call("get", messages[idx], {}, res, {}))
          /\ IF res = "ok"
             THEN /\ msg' = mail[messages[idx]]
                  /\ pc' = "parse"
             ELSE /\ pc' = AfterError(res)
                  /\ UNCHANGED msg
    /\ UNCHANGED <<mail, labels, dry_run, messages, idx, issue_data, gh, is_fixed, handled>>

\* next(h['value'] for the Subject header, 'Sin Asunto')
SubjectOf(m) == IF m.has_subject THEN m.subject ELSE SinAsunto

\* subject + " " + snippet, the text handed to parse_github_email
TextOf(m) == SubjectOf(m) \o <<" ">> \o m.snippet

\* AfterParse with the status check made for every message
AfterParseAlwaysCheck(data) == "check"

\* the branch process_messages takes on issue_data
AfterParse(data) == IF data # None THEN "check" ELSE "mark_read"

\* issue_data = parse_github_email(subject + " " + snippet, "")
ParseMessage ==
    /\ pc = "parse"
    /\ issue_data' = parse_github_email(TextOf(msg), <<>>)
    /\ pc' = AfterParse(issue_data')
    /\ UNCHANGED <<mail, labels, dry_run, messages, idx, msg, gh, is_fixed, calls, handled>>

\* AfterCheck with the two branches exchanged
AfterCheckSwapped(fixed) == IF fixed THEN "mark_read" ELSE "archive"

\* the branch process_messages takes on is_fixed
AfterCheck(fixed) == IF fixed THEN "archive" ELSE "mark_read"

\* is_fixed = check_workflow_status(issue_data['repo'], issue_data['workflow'])
CheckWorkflowStatus ==
    /\ pc = "check"
    /\ \E out \in GhOutcomes :
          LET r == check_workflow_status(out)
          IN  /\ gh' = out
              /\ calls' = Append(calls, Call("check", messages[idx], {}, Outcome(r), {}))
              /\ IF r.k = "return"
                 THEN /\ is_fixed' = r.v
                      /\ pc' = AfterCheck(r.v)
                 ELSE /\ pc' = "raised"
                      /\ UNCHANGED is_fixed
    /\ UNCHANGED <<mail, labels, dry_run, messages, idx, msg, issue_data, handled>>

\* the for loop goes on to the next message, or process_messages returns
NextMessage ==
    IF idx < Len(messages)
    THEN /\ idx' = idx + 1
         /\ pc' = "fetch"
    ELSE /\ idx' = idx
         /\ pc' = "done"

\* whether a modify call that ended this way leaves mark_as_read or
\* archive_message with an exception: they catch HttpError and nothing else
Propagates(res) == res = "OtherError"

\* a modify call and what follows it: its own "except HttpError" logs the error
\* and the loop goes on; any other exception leaves process_messages
ModifyMessage(body, how) ==
    \E res \in Outcomes :
       /\ calls' = Append(calls, Call("modify", messages[idx], body.removeLabelIds, res,
                                    labels[messages[idx]]))
       /\ labels' = IF res = "ok"
                    THEN [labels EXCEPT ![messages[idx]] = ApplyModify(@, body)]
                    ELSE labels
       /\ handled' = IF res = "ok" THEN [handled EXCEPT ![messages[idx]] = how]
                     ELSE handled
       /\ IF Propagates(res)
          THEN /\ pc' = "raised"
               /\ idx' = idx
          ELSE NextMessage
       /\ gh' = None
       /\ UNCHANGED <<mail, dry_run, messages, msg, issue_data, is_fixed>>

\* mark_as_read(service, message['id'])
MarkAsRead ==
    /\ pc = "mark_read"
    /\ ModifyMessage(MarkReadBody, "read")

\* archive_message(service, message['id'])
ArchiveMessage ==
    /\ pc = "archive"
    /\ ModifyMessage(ArchiveBody, "archived")

Next ==
    \/ Main
    \/ ListMessages
    \/ GetMessage
    \/ ParseMessage
    \/ CheckWorkflowStatus
    \/ MarkAsRead
    \/ ArchiveMessage

Spec == Init /\ [][Next]_vars

----------------------------------------------------------------------------
(* parse_github_email on its own: the texts it is applied to *)

\* what precedes the bracket: nothing, "Re: ", or the start of another notification
Prefixes ==
    { <<>>,
      <<"R", "e", ":", " ">>,
      <<"[", "x", "/", "x", "]", " ", "R", "u", "n", " ">> }

Opens == {<<>>, <<"[">>}

Owners ==
    { <<"a">>,
      <<"a", "-", "b">>,
      <<"a", ".", "b">>,
      <<>> }

Slashes == {<<>>, <<"/">>}

\* after the repository name: "] Run failed: ", " Run failed: ", "] Run passed: "
Phrases ==
    { <<"]", " ", "R", "u", "n", " ", "f", "a", "i", "l", "e", "d", ":", " ">>,
      <<" ", "R", "u", "n", " ", "f", "a", "i", "l", "e", "d", ":", " ">>,
      <<"]", " ", "R", "u", "n", " ", "p", "a", "s", "s", "e", "d", ":", " ">> }

\* workflow names: "CI", "Build - Test", "Unit Tests", "C\nI", ""
Workflows ==
    { <<"C", "I">>,
      <<"B", "u", "i", "l", "d", " ", "-", " ", "T", "e", "s", "t">>,
      <<"U", "n", "i", "t", " ", "T", "e", "s", "t", "s">>,
      <<"C", "\n", "I">>,
      <<>> }

\* after the workflow name: " - ", " -", " -x", "- ", ""
Terminators ==
    { <<" ", "-", " ">>,
      <<" ", "-">>,
      <<" ", "-", "x">>,
      <<"-", " ">>,
      <<>> }

\* the branch and commit: "m (c3)", ""
Rests ==
    { <<"m", " ", "(", "c", "3", ")">>,
      <<>> }

\* the snippet: empty, or "[c/d] Run failed: QA - m"
Snippets ==
    { <<>>,
      <<"[", "c", "/", "d", "]", " ", "R", "u", "n", " ", "f", "a", "i", "l", "e", "d", ":", " ", "Q", "A", " ", "-", " ", "m">> }

ParseSubjects ==
    {pre \o op \o ow \o sl \o <<"b">> \o ph \o wf \o tm \o rs :
        pre \in Prefixes, op \in Opens, ow \in Owners, sl \in Slashes, ph \in Phrases,
        wf \in Workflows, tm \in Terminators, rs \in Rests}

InitParse ==
    /\ mail = [id \in MsgIds |-> Message(GitHubSender, TRUE, SubjectFailed, <<>>)]
    /\ labels = [id \in MsgIds |-> {"UNREAD", "INBOX"}]
    /\ dry_run = FALSE
    /\ pc = "parse"
    /\ messages = <<1>>
    /\ idx = 1
    /\ \E subject \in ParseSubjects, snippet \in Snippets, has \in BOOLEAN :
          msg = Message(GitHubSender, has, subject, snippet)
    /\ issue_data = None
    /\ gh = None
    /\ is_fixed = None
    /\ calls = <<Call("list", 0, {}, "ok", {}), Call("get", 1, {}, "ok", {})>>
    /\ handled = [id \in MsgIds |-> "none"]

NextParse == ParseMessage

SpecParse == InitParse /\ [][NextParse]_vars

----------------------------------------------------------------------------
(* Properties *)

\* what parse_github_email yields for each message a mailbox can hold
RecordOfMessage ==
    [m \in {t.m : t \in Templates} |-> parse_github_email(TextOf(m), <<>>)]

\* what parse_github_email yields for the message with this id
RecordOf(id) == RecordOfMessage[mail[id]]

Last(q) == q[Len(q)]

ModifyCalls == {p \in DOMAIN calls : calls[p].op = "modify"}

CheckCalls == {p \in DOMAIN calls : calls[p].op = "check"}

GetCalls == {p \in DOMAIN calls : calls[p].op = "get"}

\* the loop is through with the k-th message of the query result
Dispatched(k) ==
    \/ k < idx
    \/ k = idx /\ pc = "done" /\ Last(calls).op = "modify"

\* C1: every dispatched message gets exactly one modify call, chosen by (record,
\* status): a record and a true status remove INBOX and leave UNREAD as it was; a
\* record and a false status, or no record, remove UNREAD and leave INBOX as it was.
C1_DispatchByRecordAndStatus ==
    /\ \A p \in ModifyCalls :
          LET c == calls[p]
              passing == /\ RecordOf(c.id) # None
                         /\ calls[p - 1].op = "check"
                         /\ calls[p - 1].res = "True"
          IN  /\ p > 1
              /\ calls[p - 1].id = c.id
              /\ RecordOf(c.id) # None => calls[p - 1].op = "check"
              /\ c.remove = IF passing THEN {"INBOX"} ELSE {"UNREAD"}
              /\ c.res = "ok" => labels[c.id] = c.had \ c.remove
              /\ passing => ("UNREAD" \in labels[c.id] <=> "UNREAD" \in c.had)
              /\ ~passing => ("INBOX" \in labels[c.id] <=> "INBOX" \in c.had)
              /\ \A q \in ModifyCalls : calls[q].id = c.id => q = p
    /\ \A k \in 1..Len(messages) :
          Dispatched(k) => \E p \in ModifyCalls : calls[p].id = messages[k]

\* C1 witness: one run has archived one message and marked another read
C1_Witness ==
    /\ \E p \in ModifyCalls : calls[p].remove = {"INBOX"} /\ calls[p].res = "ok"
    /\ \E p \in ModifyCalls : calls[p].remove = {"UNREAD"} /\ calls[p].res = "ok"

\* the external call exits zero, its output parses to a non-empty list, and the
\* first element's conclusion is exactly "success"
Passing(out) ==
    /\ out.spawned
    /\ out.returncode = 0
    /\ LET v == JsonLoads(out.stdout)
       IN  /\ v.t = "list"
           /\ Len(v.items) > 0
           /\ v.items[1].t = "dict"
           /\ v.items[1].has
           /\ v.items[1].conclusion = Str("success")

\* C2: check_workflow_status returns true exactly when the external call exits
\* zero, its output parses to a non-empty list and the first element's conclusion is
\* "success"; in every other case it returns false, and it never raises.
C2_StatusTrueIffSuccess ==
    /\ \A p \in CheckCalls : calls[p].res \in {"True", "False"}
    /\ gh # None =>
          /\ Last(calls).op = "check"
          /\ Last(calls).res = IF Passing(gh) THEN "True" ELSE "False"
          /\ is_fixed = Passing(gh)
          /\ pc \in {"archive", "mark_read"}

\* C2 witness: gh exits zero and prints a JSON object, not a list; the check
\* has returned false
C2_Witness ==
    /\ gh # None
    /\ gh.spawned
    /\ gh.returncode = 0
    /\ gh.stdout = "{\"conclusion\":\"success\"}"
    /\ is_fixed = FALSE
    /\ pc = "mark_read"

\* C3: with the dry-run flag no modify call is issued.  The code parses the flag,
\* logs it and never reads it again, so this fails.
C3_DryRunIssuesNoMutation == dry_run => ModifyCalls = {}

PosOf(id) == CHOOSE k \in 1..Len(messages) : messages[k] = id

\* after the modify call at p the loop went on: to the fetch of the next message
\* of the query result, or to the normal end after the last one
LoopWentOn(p) ==
    LET k == PosOf(calls[p].id)
    IN  IF k < Len(messages)
        THEN IF p < Len(calls)
             THEN calls[p + 1].op = "get" /\ calls[p + 1].id = messages[k + 1]
             ELSE pc = "fetch" /\ idx = k + 1
        ELSE p = Len(calls) /\ pc = "done"

\* C4 as stated: whatever makes a modify call fail, it is issued once, leaves the
\* labels as they were, and the loop goes on.
C4_AnyModifyFailureGoesOn ==
    \A p \in ModifyCalls :
       calls[p].res # "ok" =>
          /\ labels[calls[p].id] = calls[p].had
          /\ \A q \in ModifyCalls : calls[q].id = calls[p].id => q = p
          /\ LoopWentOn(p)

\* C4, as the code behaves: a modify call that fails with an HttpError is issued
\* once, leaves the labels as they were, and the loop goes on to the next message;
\* a failure that is no HttpError is issued once, leaves the labels as they were,
\* and ends process_messages with that exception.
C4_HttpErrorOnModifyGoesOn ==
    \A p \in ModifyCalls :
       calls[p].res # "ok" =>
          /\ labels[calls[p].id] = calls[p].had
          /\ \A q \in ModifyCalls : calls[q].id = calls[p].id => q = p
          /\ calls[p].res = "HttpError" => LoopWentOn(p)
          /\ calls[p].res = "OtherError" => p = Len(calls) /\ pc = "raised"

\* C4 witness: a modify call failed with an HttpError and a later message was
\* fetched and modified
C4_Witness ==
    \E p, q \in ModifyCalls :
       /\ p < q
       /\ calls[p].res = "HttpError"
       /\ calls[q].res = "ok"

\* C5 as stated: whatever error the list query raises, nothing else is called and
\* process_messages returns normally.
C5_AnyListErrorReturns ==
    (Len(calls) >= 1 /\ calls[1].res # "ok") =>
       /\ Len(calls) = 1
       /\ messages = <<>>
       /\ pc = "done"

\* C5, as the code behaves: when the list query raises an HttpError nothing is
\* fetched, checked or modified and process_messages returns normally; when it
\* raises another exception nothing is fetched, checked or modified either, and the
\* exception leaves process_messages.
C5_ListHttpErrorReturns ==
    (Len(calls) >= 1 /\ calls[1].res # "ok") =>
       /\ Len(calls) = 1
       /\ messages = <<>>
       /\ calls[1].res = "HttpError" => pc = "done"
       /\ calls[1].res = "OtherError" => pc = "raised"

\* C5 witness: the query raised an HttpError while the mailbox held matching mail
C5_Witness ==
    /\ pc = "done"
    /\ Len(calls) = 1
    /\ calls[1].op = "list"
    /\ calls[1].res = "HttpError"
    /\ QueryResult # {}

Range(q) == {q[k] : k \in DOMAIN q}

\* C6: a step changes the mailbox only by taking UNREAD or INBOX off the message
\* under dispatch, which the query returned; nothing is added, no other label goes,
\* no other message changes.
C6_OnlyRemovesUnreadOrInbox ==
    [][/\ mail' = mail
       /\ \A id \in MsgIds :
             labels'[id] # labels[id] =>
                /\ id \in Range(messages)
                /\ id = messages[idx]
                /\ \/ labels'[id] = labels[id] \ {"UNREAD"}
                   \/ labels'[id] = labels[id] \ {"INBOX"}]_vars

\* C6 witness: a run changed one message while another, which the query did not
\* return, is in the mailbox
C6_Witness ==
    /\ \E p \in ModifyCalls : calls[p].res = "ok" /\ labels[calls[p].id] # calls[p].had
    /\ \E id \in MsgIds : id \notin Range(messages) /\ labels[id] # {}

\* C8: the calls of a run are the list query, then for each message in the order
\* of the query result its fetch, its status check exactly when it yields a record,
\* and its modify call; no message is checked twice.
C8_OneCheckPerRecordInOrder ==
    /\ \A p \in DOMAIN calls : (p = 1) <=> (calls[p].op = "list")
    /\ \A p \in GetCalls :
          /\ calls[p].id = messages[Cardinality({q \in GetCalls : q <= p})]
          /\ calls[p - 1].op \in {"list", "modify"}
    /\ \A p \in CheckCalls :
          /\ RecordOf(calls[p].id) # None
          /\ calls[p - 1].op = "get"
          /\ calls[p - 1].id = calls[p].id
          /\ calls[p - 1].res = "ok"
          /\ \A q \in CheckCalls : calls[q].id = calls[p].id => q = p
    /\ \A p \in ModifyCalls :
          /\ calls[p - 1].id = calls[p].id
          /\ calls[p - 1].op = IF RecordOf(calls[p].id) # None THEN "check" ELSE "get"

\* C8 witness: two messages of one run name the same repository and workflow and
\* each was checked
C8_Witness ==
    /\ \E p, q \in CheckCalls :
          /\ p < q
          /\ RecordOf(calls[p].id).repo = RecordOf(calls[q].id).repo
          /\ RecordOf(calls[p].id).workflow = RecordOf(calls[q].id).workflow
          /\ q < Len(calls)

\* C9: when the fetch of the k-th message raises an HttpError, that is the last
\* call of the run and process_messages returns normally; the modify calls that
\* succeeded before keep their effect, and the k-th and later messages have no
\* status check and no modify call.
C9_GetHttpErrorEndsRun ==
    \A p \in GetCalls :
       calls[p].res = "HttpError" =>
          /\ p = Len(calls)
          /\ pc = "done"
          /\ messages[idx] = calls[p].id
          /\ \A q \in ModifyCalls :
                calls[q].res = "ok" => labels[calls[q].id] = calls[q].had \ calls[q].remove
          /\ \A k \in idx..Len(messages) :
                \A q \in ModifyCalls \cup CheckCalls : calls[q].id # messages[k]

\* C9 witness: the second fetch raised an HttpError after the first message was
\* modified, and a third position or the second itself is left undone
C9_Witness ==
    /\ pc = "done"
    /\ idx = 2
    /\ Last(calls).op = "get"
    /\ Last(calls).res = "HttpError"
    /\ \E q \in ModifyCalls : calls[q].res = "ok" /\ labels[calls[q].id] # calls[q].had

InLoop == {"fetch", "parse", "check", "mark_read", "archive"}

\* the messages of the current query result that this run has not modified yet
Pending == {messages[k] : k \in idx..Len(messages)}

\* C10 as stated: a message that an earlier run modified, by either branch, is not
\* in a later run's query result.
C10_HandledNotSelectedAgain ==
    pc \in InLoop => \A id \in Pending : handled[id] = "none"

\* C10 amended: a message that a run marked read carries no UNREAD afterwards and
\* no later query returns it; a message that a run archived still carries UNREAD and
\* the query returns it again.
C10_MarkedReadNotSelectedAgain ==
    /\ \A id \in MsgIds :
          /\ handled[id] = "read" => "UNREAD" \notin labels[id] /\ id \notin QueryResult
          /\ handled[id] = "archived" => "INBOX" \notin labels[id] /\ id \in QueryResult
    /\ pc \in InLoop => \A id \in Pending : handled[id] # "read"

\* C10 witness: a later run queried a mailbox that holds a message marked read by
\* an earlier run and a message archived by an earlier run
C10_Witness ==
    /\ pc \in InLoop
    /\ \E id \in MsgIds : handled[id] = "read" /\ id \notin Range(messages)
    /\ \E id \in Pending : handled[id] = "archived"

----------------------------------------------------------------------------
(* Properties of parse_github_email, under SpecParse *)

\* text s holds, from position i, "[" owner "/" name "] Run failed: " workflow " -"
\* with the slash at j, the closing bracket at k and the terminator at e
Shape(s, i, j, k, e) ==
    /\ s[i] = "["
    /\ i + 1 < j
    /\ \A q \in (i + 1)..(j - 1) : s[q] \in Letters \cup {"_", "-"}
    /\ s[j] = "/"
    /\ j + 1 < k
    /\ \A q \in (j + 1)..(k - 1) : s[q] \in Letters \cup {"_", "-"}
    /\ StartsAt(s, k, <<"]", " ", "R", "u", "n", " ", "f", "a", "i", "l", "e", "d", ":", " ">>)
    /\ k + 14 < e
    /\ \A q \in (k + 14)..(e - 1) : s[q] # "\n"
    /\ StartsAt(s, e, <<" ", "-">>)

At(s, c) == {i \in 1..Len(s) : s[i] = c}

\* every place of the text that has the shape
Shapes(s) ==
    {x \in At(s, "[") \X At(s, "/") \X At(s, "]") \X At(s, " ") :
        Shape(s, x[1], x[2], x[3], x[4])}

\* C7 as stated: a record is returned only when the workflow name is followed by
\* space, hyphen, space.
C7_RecordOnlyWithSpaceHyphenSpace ==
    pc = "check" =>
       Contains(TextOf(msg),
                <<"[">> \o issue_data.repo \o <<"]", " ", "R", "u", "n", " ", "f", "a", "i", "l", "e", "d", ":", " ">> \o issue_data.workflow
                   \o <<" ", "-", " ">>)

\* C7 amended: a record is returned exactly when the text holds
\* "[a/b] Run failed: W -" with a and b non-empty runs of word characters and
\* hyphens and W non-empty without a newline (the terminator is space, hyphen; no
\* second space is needed); the record is that of the leftmost such place and of the
\* shortest W there.  Missing brackets, a missing "Run failed:", a dot in the
\* repository or a missing " -" yield no record.
C7_RecordIffShape ==
    pc # "parse" =>
       LET s == TextOf(msg)
           S == Shapes(s)
       IN  /\ (issue_data = None) <=> (S = {})
           /\ (pc = "check") <=> (issue_data # None)
           /\ issue_data # None =>
                 \E x \in S :
                    /\ \A y \in S : x[1] <= y[1] /\ (y[1] = x[1] => x[4] <= y[4])
                    /\ issue_data.repo = SubSeq(s, x[1] + 1, x[3] - 1)
                    /\ issue_data.workflow = SubSeq(s, x[3] + 14, x[4] - 1)
                    /\ issue_data.snippet = s
                    /\ issue_data.type = "github_action_failure"

\* C7 witness: a record for workflow "CI" from a text without space, hyphen, space
C7_Witness ==
    /\ pc = "check"
    /\ issue_data.workflow = <<"C", "I">>
    /\ ~Contains(TextOf(msg), <<" ", "-", " ">>)

====
